---- MODULE Spec2Model ----
(***************************************************************************)
(* The session store of convex-session-tracker: the `sessions` table and  *)
(* the four Convex functions trackSession, trackUserAction,                *)
(* getActiveSessions and cleanupOldSessions that read and write it.        *)
(*                                                                         *)
(* Spec      every function runs as one step (a Convex mutation/query).   *)
(* SpecConc  two calls of trackSession, trackUserAction or                 *)
(*           cleanupOldSessions split at                                   *)
(*           their awaits: Date.now(), the query and every write are       *)
(*           separate steps of a call.                                     *)
(* SpecClient  the useSessionTracker hook of one component: its effect,   *)
(*           the browser's localStorage and interval timers, and the       *)
(*           trackSession calls it issues.                                 *)
(* SpecCron  the daily cron of crons.ts over a clock that advances by      *)
(*           days, with the calls of the clients in between.               *)
(***************************************************************************)
EXTENDS Integers, Sequences, FiniteSets, TLC

VARIABLES
    sessions,   \* the rows of the `sessions` table
    nextId,     \* the next document _id the database hands out
    clock,      \* what Date.now() returns
    last,       \* the last function call: its name, arguments and result
    calls,      \* SpecConc: the calls in flight
    env,        \* where the hook runs: "server", "browser" or "nostorage"
    localStorage,   \* the browser's localStorage: key -> value
    hook,       \* the component: its props, its anonymousId state, its effect
    timers,     \* the browser's active intervals
    nextInterval,   \* the handle the next setInterval returns
    nextUuid,   \* the index of the identifier the next uuidv4() returns
    requests,   \* the trackSession calls the hook has issued
    event       \* the last thing that happened in the component

serverVars == <<sessions, nextId, clock, last, calls>>

clientVars ==
    <<env, localStorage, hook, timers, nextInterval, nextUuid, requests, event>>

vars == <<serverVars, clientVars>>

----------------------------------------------------------------------------
(* Bounds of the model.                                                    *)

MaxTick == 2        \* the clock takes the instants TimeAt(0..MaxTick)
MaxRows == 2        \* documents ever inserted
MaxActions == 2     \* action entries held by the table
MaxIntervals == 2   \* setInterval calls of the hook
MaxRequests == 3    \* trackSession calls the hook issues
MaxDay == 16        \* days the clock of SpecCron runs

(* Program constants.  Timestamps are counted in seconds, not in the      *)
(* milliseconds of Date.now(): the factor 1000 of the source's two         *)
(* products is the unit, since 30 days of milliseconds exceed the 32-bit   *)
(* integers of the model checker (a JavaScript number holds them exactly). *)

Minute == 60                \* 60 * 1000 ms
Day == 24 * 60 * 60         \* 24 * 60 * 60 * 1000 ms
DefaultMinutesActive == 15
DefaultDaysInactive == 30
CronDaysInactive == 14      \* { daysInactive: 14 } of the daily cron

DefaultStorageKey == "anonymousUserId"
DefaultHeartbeatInterval == 5 * 60 * 1000

(* Inputs.                                                                 *)

AnonymousIds == {"abc", "user123"}

\* the arguments of trackUserAction besides anonymousId; an optional
\* argument that is not passed is a field the record does not have
ActionArgs ==
    { [action |-> "button_click"],
      [action |-> "form_submit", resourceId |-> "contact-form",
       metadata |-> "success"] }

\* args of getActiveSessions: minutesActive passed or not
MinutesArgs == {<< >>} \cup {[minutesActive |-> m] : m \in {0, 1}}

\* args of cleanupOldSessions: daysInactive passed or not
DaysArgs == {<< >>} \cup {[daysInactive |-> d] : d \in {0, 1}}

\* the instants the clock takes
\* 0, one minute, one day, one day and one minute, two days, ...
TimeAt(i) == (i \div 2) * Day + (i % 2) * Minute

Times == {TimeAt(i) : i \in 0..MaxTick}

Procs == {1, 2}

----------------------------------------------------------------------------
(* The database operations the handlers use.                               *)

\* the document of the table with this _id
Row(S, id) == CHOOSE r \in S : r._id = id

\* the _ids of the table
Ids(S) == {r._id : r \in S}

\* .withIndex('by_anonymous_id', q => q.eq('anonymousId', anonymousId))
ByAnonymousId(S, anonymousId) == {r \in S : r.anonymousId = anonymousId}

\* mutant of First: the lookup never finds a document
FirstNull(R) == {}

\* .first(): the first document of the range in index order (the order of
\* creation), as a set: {} for null
First(R) ==
    IF R = {} THEN {} ELSE {CHOOSE r \in R : \A q \in R : r._id <= q._id}

\* mutant of Insert: lastActive is left at 0
InsertNoLastActive(S, id, anonymousId, now) ==
    S \cup {[_id |-> id, anonymousId |-> anonymousId, createdAt |-> now,
             lastActive |-> 0, actions |-> << >>]}

\* ctx.db.insert('sessions', {anonymousId, createdAt: now, lastActive: now, actions: []})
Insert(S, id, anonymousId, now) ==
    S \cup {[_id |-> id, anonymousId |-> anonymousId, createdAt |-> now,
             lastActive |-> now, actions |-> << >>]}

\* mutant of PatchLastActive: the heartbeat rewrites createdAt too
PatchCreatedAt(S, id, now) ==
    {IF r._id = id THEN [r EXCEPT !.lastActive = now, !.createdAt = now]
     ELSE r : r \in S}

\* mutant of PatchLastActive: the document is replaced, not patched
ReplaceLastActive(S, id, now) ==
    {IF r._id = id THEN [r EXCEPT !.lastActive = now, !.actions = << >>]
     ELSE r : r \in S}

\* ctx.db.patch(id, {lastActive: now})
PatchLastActive(S, id, now) ==
    {IF r._id = id THEN [r EXCEPT !.lastActive = now] ELSE r : r \in S}

\* mutant of Entry: the entry is stamped 0, not now
EntryUnstamped(args, now) == args @@ [timestamp |-> 0]

\* {action, timestamp: now, resourceId, metadata}
Entry(args, now) == args @@ [timestamp |-> now]

\* mutant of Spread: the new entry goes first
Prepend(actions, entry) == <<entry>> \o actions

\* [...session.actions, entry]
Spread(actions, entry) == Append(actions, entry)

\* mutant of PatchAction: lastActive is reset to the time of creation
PatchActionCreatedAt(S, id, now, actions) ==
    {IF r._id = id THEN [r EXCEPT !.lastActive = r.createdAt, !.actions = actions]
     ELSE r : r \in S}

\* ctx.db.patch(id, {lastActive: now, actions: [...session.actions, entry]})
PatchAction(S, id, now, actions) ==
    {IF r._id = id THEN [r EXCEPT !.lastActive = now, !.actions = actions]
     ELSE r : r \in S}

\* const { minutesActive = 15 } = args
MinutesActive(args) ==
    IF "minutesActive" \in DOMAIN args THEN args.minutesActive
    ELSE DefaultMinutesActive

\* const { daysInactive = 30 } = args
DaysInactive(args) ==
    IF "daysInactive" \in DOMAIN args THEN args.daysInactive
    ELSE DefaultDaysInactive

\* Date.now() - (minutesActive * 60 * 1000)
ActiveCutoff(now, minutesActive) == now - minutesActive * Minute

\* Date.now() - (daysInactive * 24 * 60 * 60 * 1000)
CleanupCutoff(now, daysInactive) == now - daysInactive * Day

\* .filter(q => q.gt(q.field('lastActive'), cutoff)).collect()
ActiveSessions(S, cutoff) == {r \in S : r.lastActive > cutoff}

\* mutant of OldSessions: the filter reads createdAt
OldSessionsByCreatedAt(S, cutoff) == {r \in S : r.createdAt < cutoff}

\* mutant of OldSessions: lte instead of lt
OldSessionsLte(S, cutoff) == {r \in S : r.lastActive <= cutoff}

\* .filter(q => q.lt(q.field('lastActive'), cutoff)).collect()
OldSessions(S, cutoff) == {r \in S : r.lastActive < cutoff}

\* mutant of DeleteEach: the loop deletes nothing
DeleteNone(S, old) == S

\* mutant of DeleteEach: the loop stops after its first delete
DeleteFirstOnly(S, old) == {r \in S : r \notin First(old)}

\* for (const session of oldSessions) { await ctx.db.delete(session._id); ... }
DeleteEach(S, old) == {r \in S : r._id \notin {o._id : o \in old}}

\* ... deletedCount++ once per session of oldSessions
DeletedCount(old) == Cardinality(old)

RECURSIVE TotalActions(_)
\* the number of action entries in the table (bounds the model)
TotalActions(S) ==
    IF S = {} THEN 0
    ELSE LET r == CHOOSE x \in S : TRUE
         IN  Len(r.actions) + TotalActions(S \ {r})

----------------------------------------------------------------------------
(* The record of the last call.                                            *)

NoCall ==
    [op |-> "none", anonymousId |-> "", args |-> << >>, now |-> 0,
     error |-> "", id |-> 0, rows |-> {}, deletedCount |-> 0, oldestDate |-> 0]

Call(op, anonymousId, args, now) ==
    [NoCall EXCEPT !.op = op, !.anonymousId = anonymousId, !.args = args,
                   !.now = now]

\* a call of SpecConc that has not started: its position and its locals
IdleCall ==
    [op |-> "", pc |-> "idle", anonymousId |-> "", args |-> << >>, now |-> 0,
     existing |-> {}, cutoff |-> 0, oldSessions |-> {}, deletedCount |-> 0]

\* the component before it is mounted; an absent value (null, undefined)
\* is the empty set and a present one the set that holds it
Unmounted == [props |-> {}, anonymousId |-> {}, effect |-> {}]

NoEvent == [type |-> "none", run |-> 0]

\* the client before the component is mounted, in environment e with the
\* localStorage contents store
ClientStart(e, store) ==
    /\ env = e
    /\ localStorage = store
    /\ hook = Unmounted
    /\ timers = {}
    /\ nextInterval = 1
    /\ nextUuid = 1
    /\ requests = << >>
    /\ event = NoEvent

----------------------------------------------------------------------------
(* Spec: each function is one step.                                        *)

Init ==
    /\ sessions = {}
    /\ nextId = 1
    /\ clock = 0
    /\ last = NoCall
    /\ calls = [p \in Procs |-> IdleCall]
    /\ ClientStart("browser", << >>)

\* time passes
Tick ==
    /\ \E t \in Times : t > clock /\ clock' = t
    /\ UNCHANGED <<sessions, nextId, last, calls, clientVars>>

trackSession(anonymousId) ==
    LET now == clock
        existing == First(ByAnonymousId(sessions, anonymousId))
    IN  /\ IF existing # {}
           THEN LET e == CHOOSE r \in existing : TRUE
                IN  /\ sessions' = PatchLastActive(sessions, e._id, now)
                    /\ nextId' = nextId
                    /\ last' = [Call("trackSession", anonymousId, << >>, now)
                                  EXCEPT !.id = e._id]
           ELSE /\ nextId <= MaxRows
                /\ sessions' = Insert(sessions, nextId, anonymousId, now)
                /\ nextId' = nextId + 1
                /\ last' = [Call("trackSession", anonymousId, << >>, now)
                              EXCEPT !.id = nextId]
        /\ UNCHANGED <<clock, calls, clientVars>>

\* mutant of trackUserAction: a missing session is created with the action
trackUserActionCreates(anonymousId, args) ==
    LET now == clock
        session == First(ByAnonymousId(sessions, anonymousId))
        id == IF session = {} THEN nextId ELSE (CHOOSE r \in session : TRUE)._id
        S == IF session = {} THEN Insert(sessions, nextId, anonymousId, now)
             ELSE sessions
    IN  /\ session = {} => nextId <= MaxRows
        /\ TotalActions(sessions) < MaxActions
        /\ sessions' = PatchAction(S, id, now,
                           Spread(Row(S, id).actions, Entry(args, now)))
        /\ nextId' = IF session = {} THEN nextId + 1 ELSE nextId
        /\ last' = [Call("trackUserAction", anonymousId, args, now)
                      EXCEPT !.id = id]
        /\ UNCHANGED <<clock, calls, clientVars>>

trackUserAction(anonymousId, args) ==
    LET now == clock
        session == First(ByAnonymousId(sessions, anonymousId))
    IN  /\ IF session = {}
           THEN /\ last' = [Call("trackUserAction", anonymousId, args, now)
                              EXCEPT !.error = "Session not found"]
                /\ UNCHANGED sessions
           ELSE LET s == CHOOSE r \in session : TRUE
                IN  /\ TotalActions(sessions) < MaxActions
                    /\ sessions' = PatchAction(sessions, s._id, now,
                                       Spread(s.actions, Entry(args, now)))
                    /\ last' = [Call("trackUserAction", anonymousId, args, now)
                                  EXCEPT !.id = s._id]
        /\ UNCHANGED <<nextId, clock, calls, clientVars>>

getActiveSessions(args) ==
    LET minutesActive == MinutesActive(args)
        cutoff == ActiveCutoff(clock, minutesActive)
    IN  /\ last' = [Call("getActiveSessions", "", args, clock)
                      EXCEPT !.rows = ActiveSessions(sessions, cutoff)]
        /\ UNCHANGED <<sessions, nextId, clock, calls, clientVars>>

cleanupSessionsHandler(op, args) ==
    LET daysInactive == DaysInactive(args)
        cutoff == CleanupCutoff(clock, daysInactive)
        oldSessions == OldSessions(sessions, cutoff)
    IN  /\ sessions' = DeleteEach(sessions, oldSessions)
        /\ last' = [Call(op, "", args, clock)
                      EXCEPT !.deletedCount = DeletedCount(oldSessions),
                             !.oldestDate = cutoff]
        /\ UNCHANGED <<nextId, clock, calls, clientVars>>

cleanupOldSessions(args) == cleanupSessionsHandler("cleanupOldSessions", args)

\* the daily cron: internal.sessions.cleanupOldSessions_internal, { daysInactive: 14 }
cleanupOldSessions_internal ==
    cleanupSessionsHandler("cleanupOldSessions_internal",
                           [daysInactive |-> CronDaysInactive])

Next ==
    \/ Tick
    \/ \E a \in AnonymousIds : trackSession(a)
    \/ \E a \in AnonymousIds, args \in ActionArgs : trackUserAction(a, args)
    \/ \E args \in MinutesArgs : getActiveSessions(args)
    \/ \E args \in DaysArgs : cleanupOldSessions(args)
    \/ cleanupOldSessions_internal

Spec == Init /\ [][Next]_vars

----------------------------------------------------------------------------
(* SpecConc: two calls whose awaits interleave.  A trackSession call reads *)
(* Date.now(), awaits the index lookup, then awaits the patch or insert; a *)
(* cleanup call computes its cutoff, awaits the scan, then awaits one      *)
(* delete per collected session.  The handlers take no lock and the table  *)
(* has no unique index.  The calls start on an empty table or on one that  *)
(* holds a session of each identifier.                                     *)

\* the tables the calls start on: none, or the two sessions that
\* trackSession("abc") and trackSession("user123") created at instant 0
StoresAtStart == {{}, Insert(Insert({}, 1, "abc", 0), 2, "user123", 0)}

InitConc ==
    /\ sessions \in StoresAtStart
    /\ nextId = Cardinality(sessions) + 1
    /\ clock = 0
    /\ last = NoCall
    /\ calls = [p \in Procs |-> IdleCall]
    /\ ClientStart("browser", << >>)

\* what a write (patch, delete) to a document that is gone ends in: the
\* handlers neither check nor catch, the database decides between an error
\* thrown out of the handler and a write that does nothing
MissingDocument == {"failed", "ignored"}

\* const now = Date.now(), and the lookup is issued
trackSessionEnter(p, anonymousId) ==
    /\ calls[p].pc = "idle"
    /\ calls' = [calls EXCEPT ![p] = [IdleCall EXCEPT !.op = "trackSession",
                                                      !.pc = "lookup",
                                                      !.anonymousId = anonymousId,
                                                      !.now = clock]]
    /\ UNCHANGED <<sessions, nextId, clock, last, clientVars>>

\* const existing = await ctx.db.query('sessions').withIndex(...).first()
trackSessionLookup(p) ==
    /\ calls[p].op = "trackSession"
    /\ calls[p].pc = "lookup"
    /\ calls' = [calls EXCEPT ![p].pc = "write",
                              ![p].existing =
                                  First(ByAnonymousId(sessions, calls[p].anonymousId))]
    /\ UNCHANGED <<sessions, nextId, clock, last, clientVars>>

\* if (existing) await ctx.db.patch(...) else await ctx.db.insert(...)
trackSessionWrite(p) ==
    LET c == calls[p]
    IN  /\ c.op = "trackSession"
        /\ c.pc = "write"
        /\ IF c.existing # {}
           THEN LET e == CHOOSE r \in c.existing : TRUE
                IN  IF e._id \in Ids(sessions)
                    THEN /\ sessions' = PatchLastActive(sessions, e._id, c.now)
                         /\ nextId' = nextId
                         /\ calls' = [calls EXCEPT ![p].pc = "done"]
                    ELSE /\ UNCHANGED <<sessions, nextId>>
                         /\ \E outcome \in MissingDocument :
                               calls' = [calls EXCEPT ![p].pc =
                                   IF outcome = "failed" THEN "failed" ELSE "done"]
           ELSE /\ nextId <= MaxRows
                /\ sessions' = Insert(sessions, nextId, c.anonymousId, c.now)
                /\ nextId' = nextId + 1
                /\ calls' = [calls EXCEPT ![p].pc = "done"]
        /\ UNCHANGED <<clock, last, clientVars>>

\* const now = Date.now(), and the lookup of the session is issued
trackUserActionEnter(p, anonymousId, args) ==
    /\ calls[p].pc = "idle"
    /\ calls' = [calls EXCEPT ![p] = [IdleCall EXCEPT !.op = "trackUserAction",
                                                      !.pc = "lookup",
                                                      !.anonymousId = anonymousId,
                                                      !.args = args,
                                                      !.now = clock]]
    /\ UNCHANGED <<sessions, nextId, clock, last, clientVars>>

\* const session = await ctx.db.query('sessions').withIndex(...).first();
\* if (!session) throw new Error('Session not found')
trackUserActionLookup(p) ==
    LET session == First(ByAnonymousId(sessions, calls[p].anonymousId))
    IN  /\ calls[p].op = "trackUserAction"
        /\ calls[p].pc = "lookup"
        /\ calls' = [calls EXCEPT ![p].pc = IF session = {} THEN "failed"
                                            ELSE "write",
                                  ![p].existing = session]
        /\ UNCHANGED <<sessions, nextId, clock, last, clientVars>>

\* await ctx.db.patch(session._id, { lastActive: now,
\*     actions: [...session.actions, {...}] }), on the session as it was read
trackUserActionWrite(p) ==
    LET c == calls[p]
    IN  /\ c.op = "trackUserAction"
        /\ c.pc = "write"
        /\ LET session == CHOOSE r \in c.existing : TRUE
           IN  IF session._id \in Ids(sessions)
               THEN /\ sessions' = PatchAction(sessions, session._id, c.now,
                                       Spread(session.actions, Entry(c.args, c.now)))
                    /\ calls' = [calls EXCEPT ![p].pc = "done"]
               ELSE /\ UNCHANGED sessions
                    /\ \E outcome \in MissingDocument :
                          calls' = [calls EXCEPT ![p].pc =
                              IF outcome = "failed" THEN "failed" ELSE "done"]
        /\ UNCHANGED <<nextId, clock, last, clientVars>>

\* const cutoff = Date.now() - (daysInactive * 24 * 60 * 60 * 1000), and
\* the scan is issued
cleanupEnter(p, args) ==
    /\ calls[p].pc = "idle"
    /\ calls' = [calls EXCEPT ![p] =
                    [IdleCall EXCEPT !.op = "cleanupOldSessions",
                                     !.pc = "scan",
                                     !.now = clock,
                                     !.cutoff = CleanupCutoff(clock, DaysInactive(args))]]
    /\ UNCHANGED <<sessions, nextId, clock, last, clientVars>>

\* const oldSessions = await ctx.db.query('sessions').filter(...).collect()
cleanupScan(p) ==
    /\ calls[p].pc = "scan"
    /\ calls' = [calls EXCEPT ![p].pc = "delete",
                              ![p].oldSessions = OldSessions(sessions, calls[p].cutoff)]
    /\ UNCHANGED <<sessions, nextId, clock, last, clientVars>>

\* one turn of the loop: await ctx.db.delete(session._id); deletedCount++
cleanupDelete(p) ==
    LET c == calls[p]
    IN  /\ c.pc = "delete"
        /\ c.oldSessions # {}
        /\ LET session == First(c.oldSessions)
               rest == c.oldSessions \ session
           IN  IF Ids(session) \subseteq Ids(sessions)
               THEN /\ sessions' = DeleteEach(sessions, session)
                    /\ calls' = [calls EXCEPT ![p].oldSessions = rest,
                                              ![p].deletedCount = c.deletedCount + 1]
               ELSE /\ UNCHANGED sessions
                    /\ \E outcome \in MissingDocument :
                          calls' = IF outcome = "failed"
                                   THEN [calls EXCEPT ![p].pc = "failed"]
                                   ELSE [calls EXCEPT ![p].oldSessions = rest,
                                                      ![p].deletedCount =
                                                          c.deletedCount + 1]
        /\ UNCHANGED <<nextId, clock, last, clientVars>>

\* return { deletedCount, oldestDate: cutoff }
cleanupReturn(p) ==
    /\ calls[p].pc = "delete"
    /\ calls[p].oldSessions = {}
    /\ calls' = [calls EXCEPT ![p].pc = "done"]
    /\ UNCHANGED <<sessions, nextId, clock, last, clientVars>>

NextConc ==
    \/ Tick
    \/ \E p \in Procs, a \in AnonymousIds : trackSessionEnter(p, a)
    \/ \E p \in Procs : trackSessionLookup(p)
    \/ \E p \in Procs : trackSessionWrite(p)
    \/ \E p \in Procs, a \in AnonymousIds, args \in ActionArgs :
          trackUserActionEnter(p, a, args)
    \/ \E p \in Procs : trackUserActionLookup(p)
    \/ \E p \in Procs : trackUserActionWrite(p)
    \/ \E p \in Procs, args \in DaysArgs : cleanupEnter(p, args)
    \/ \E p \in Procs : cleanupScan(p)
    \/ \E p \in Procs : cleanupDelete(p)
    \/ \E p \in Procs : cleanupReturn(p)

SpecConc == InitConc /\ [][NextConc]_vars

----------------------------------------------------------------------------
(* SpecClient: the useSessionTracker hook.  JavaScript runs an effect, its *)
(* cleanup and a timer callback to completion, so each is one step; a      *)
(* trackSession call is issued and not awaited, and settles later.         *)

\* the environments: no window (server rendering), a browser, and a
\* context with a window whose localStorage cannot be accessed
Envs == {"server", "browser", "nostorage"}

\* the props a component is rendered with; a prop that is not passed is a
\* field the record does not have
PropsArgs ==
    { << >>, [heartbeatInterval |-> 60000], [storageKey |-> "myAppUserId"] }

\* localStorage when the page loads: empty, the identifier of an earlier
\* visit under the default key, or an empty string under it
StoragesAtStart ==
    { << >>, (DefaultStorageKey :> "user123"), (DefaultStorageKey :> "") }

\* the identifiers uuidv4() returns, each one new
Uuids == <<"9b1deb4d", "1b9d6bcd", "6ec0bd7f">>

\* heartbeatInterval = 5 * 60 * 1000
HeartbeatInterval(props) ==
    IF "heartbeatInterval" \in DOMAIN props THEN props.heartbeatInterval
    ELSE DefaultHeartbeatInterval

\* storageKey = 'anonymousUserId'
StorageKey(props) ==
    IF "storageKey" \in DOMAIN props THEN props.storageKey
    ELSE DefaultStorageKey

\* the dependencies of the effect: [trackSession, heartbeatInterval,
\* storageKey]; useMutation returns the same trackSession on every render
Deps(props) == <<HeartbeatInterval(props), StorageKey(props)>>

\* localStorage.getItem(storageKey): {} for null
GetItem(store, key) == IF key \in DOMAIN store THEN {store[key]} ELSE {}

\* localStorage.setItem(storageKey, id)
SetItem(store, key, id) ==
    [k \in DOMAIN store \cup {key} |-> IF k = key THEN id ELSE store[k]]

\* mutant of IdOf: a new identifier on every run
IdOfFresh(storedId, uuid) == uuid

\* const id = storedId || uuidv4()
IdOf(storedId, uuid) ==
    IF storedId # {} /\ storedId # {""} THEN CHOOSE v \in storedId : TRUE
    ELSE uuid

\* if (!storedId) localStorage.setItem(storageKey, id)
Persist(store, key, storedId, id) ==
    IF storedId = {} \/ storedId = {""} THEN SetItem(store, key, id) ELSE store

\* mutant of Issue: the call is never made
IssueNothing(reqs, id, run) == reqs

\* trackSession({ anonymousId: id }), issued and not awaited
Issue(reqs, id, run) ==
    Append(reqs, [anonymousId |-> id, run |-> run, status |-> "pending"])

\* setInterval(() => { trackSession({ anonymousId: id }) }, heartbeatInterval)
\* fired counts the times the browser has run the callback
SetInterval(T, handle, id, delay) ==
    T \cup {[handle |-> handle, anonymousId |-> id, delay |-> delay,
             fired |-> 0]}

\* mutant of ClearInterval: the handle of the effect before is cleared
ClearIntervalStale(T, handle) == {t \in T : t.handle # handle - 1}

\* clearInterval(interval)
ClearInterval(T, handle) == {t \in T : t.handle # handle}

\* mutant of Cleanup: the effect returns no cleanup
CleanupNothing(T, effect) == T

\* return () => clearInterval(interval), run by React when the dependencies
\* change and when the component unmounts; an effect that returned nothing
\* has no cleanup
Cleanup(T, effect) ==
    IF effect = {} THEN T
    ELSE ClearInterval(T, (CHOOSE e \in effect : TRUE).interval)

\* the body of the effect for the props, on the timers T that the cleanup
\* of the previous effect left
Effect(props, T) ==
    IF env = "server"
    THEN \* if (typeof window === 'undefined') return
         /\ hook' = [props |-> {props}, anonymousId |-> hook.anonymousId,
                     effect |-> {}]
         /\ timers' = T
         /\ event' = [type |-> "effect", run |-> 0]
         /\ UNCHANGED <<localStorage, nextInterval, nextUuid, requests>>
    ELSE IF env = "nostorage"
    THEN \* localStorage.getItem throws: the effect ends in an error and
         \* React unmounts the component
         /\ hook' = Unmounted
         /\ timers' = T
         /\ event' = [type |-> "error", run |-> 0]
         /\ UNCHANGED <<localStorage, nextInterval, nextUuid, requests>>
    ELSE LET key == StorageKey(props)
             storedId == GetItem(localStorage, key)
             id == IdOf(storedId, Uuids[nextUuid])
         IN  /\ nextInterval <= MaxIntervals
             /\ Len(requests) < MaxRequests
             /\ storedId = {} => nextUuid <= Len(Uuids)
             /\ nextUuid' = IF storedId = {} THEN nextUuid + 1 ELSE nextUuid
             /\ localStorage' = Persist(localStorage, key, storedId, id)
             /\ requests' = Issue(requests, id, nextInterval)
             /\ timers' = SetInterval(T, nextInterval, id, HeartbeatInterval(props))
             /\ nextInterval' = nextInterval + 1
             /\ hook' = [props |-> {props}, anonymousId |-> {id},
                         effect |-> {[id |-> id, interval |-> nextInterval]}]
             /\ event' = [type |-> "effect", run |-> nextInterval]

\* the component is mounted: first render, then the effect
Mount(props) ==
    /\ hook.props = {}
    /\ Effect(props, timers)
    /\ UNCHANGED <<env, serverVars>>

\* the component is rendered with props that change the dependencies: the
\* cleanup of the previous effect, then the effect
Rerender(props) ==
    /\ hook.props # {}
    /\ \A old \in hook.props : Deps(old) # Deps(props)
    /\ Effect(props, Cleanup(timers, hook.effect))
    /\ UNCHANGED <<env, serverVars>>

\* the component is unmounted: the cleanup of the effect
Unmount ==
    /\ hook.props # {}
    /\ timers' = Cleanup(timers, hook.effect)
    /\ hook' = Unmounted
    /\ event' = [type |-> "unmount",
                 run |-> IF hook.effect = {} THEN 0
                         ELSE (CHOOSE e \in hook.effect : TRUE).interval]
    /\ UNCHANGED <<env, localStorage, nextInterval, nextUuid, requests, serverVars>>

\* the browser fires the active interval with this handle: its callback
\* issues trackSession
IntervalTick(handle) ==
    \E t \in timers :
        /\ t.handle = handle
        /\ Len(requests) < MaxRequests
        /\ requests' = Issue(requests, t.anonymousId, t.handle)
        /\ timers' = (timers \ {t}) \cup {[t EXCEPT !.fired = t.fired + 1]}
        /\ event' = [type |-> "tick", run |-> t.handle]
        /\ UNCHANGED <<env, localStorage, hook, nextInterval, nextUuid,
                       serverVars>>

\* mutant of Settle: a failed call is issued again at once
SettleRetry(i, status) ==
    /\ i \in DOMAIN requests
    /\ requests[i].status = "pending"
    /\ requests' =
          IF status = "failed" /\ Len(requests) < MaxRequests
          THEN Issue([requests EXCEPT ![i].status = status],
                     requests[i].anonymousId, requests[i].run)
          ELSE [requests EXCEPT ![i].status = status]
    /\ event' = [type |-> "settle", run |-> requests[i].run]
    /\ UNCHANGED <<env, localStorage, hook, timers, nextInterval, nextUuid,
                   serverVars>>

\* a trackSession call settles: the mutation succeeded, or it failed and
\* its promise is rejected; the hook attaches no handler to it
Settle(i, status) ==
    /\ i \in DOMAIN requests
    /\ requests[i].status = "pending"
    /\ requests' = [requests EXCEPT ![i].status = status]
    /\ event' = [type |-> "settle", run |-> requests[i].run]
    /\ UNCHANGED <<env, localStorage, hook, timers, nextInterval, nextUuid,
                   serverVars>>

InitClient ==
    /\ sessions = {}
    /\ nextId = 1
    /\ clock = 0
    /\ last = NoCall
    /\ calls = [p \in Procs |-> IdleCall]
    /\ \E e \in Envs, store \in StoragesAtStart :
          /\ e # "browser" => store = << >>
          /\ ClientStart(e, store)

NextClient ==
    \/ \E props \in PropsArgs : Mount(props)
    \/ \E props \in PropsArgs : Rerender(props)
    \/ Unmount
    \/ \E handle \in 1..MaxIntervals : IntervalTick(handle)
    \/ \E i \in 1..MaxRequests, status \in {"ok", "failed"} : Settle(i, status)

SpecClient == InitClient /\ [][NextClient]_vars

----------------------------------------------------------------------------
(* SpecCron: the cron runs cleanupOldSessions_internal every day, and     *)
(* clients call trackSession and trackUserAction in between.  The clock    *)
(* counts days; the calls of a day come before the run of the cron that   *)
(* ends it, which is the last call of the day.  The clock stops after      *)
(* MaxDay days: a client call is left out when it comes so late that its  *)
(* session could not pass the cutoff of the cron before the clock stops.   *)
(* The cron keeps firing, and the days keep passing however many calls    *)
(* the clients make in one day.                                            *)

\* the last day of a client call
LastCallDay == MaxDay - (CronDaysInactive + 1)

\* the action the clients track
CronActionArgs == {[action |-> "button_click"]}

\* a day passes, once the cron of the day has run
DayPasses ==
    /\ clock < MaxDay * Day
    /\ last.op = "cleanupOldSessions_internal"
    /\ last.now = clock
    /\ clock' = clock + Day
    /\ UNCHANGED <<sessions, nextId, last, calls, clientVars>>

InitCron == Init

NextCron ==
    \/ DayPasses
    \/ \E a \in AnonymousIds : clock <= LastCallDay * Day /\ trackSession(a)
    \/ \E a \in AnonymousIds, args \in CronActionArgs :
          clock <= LastCallDay * Day /\ trackUserAction(a, args)
    \/ cleanupOldSessions_internal

SpecCron ==
    /\ InitCron
    /\ [][NextCron]_vars
    /\ SF_vars(DayPasses)
    /\ WF_vars(cleanupOldSessions_internal)

----------------------------------------------------------------------------
(* Properties of Spec.  A step of Spec that leaves the clock alone and     *)
(* changes the state is a function call, and last' is its record.          *)

\* C1: with every function run as one step, the table never holds two
\* sessions of the same anonymousId.
C1_OneSessionPerAnonymousId ==
    \A a \in AnonymousIds : Cardinality(ByAnonymousId(sessions, a)) <= 1

\* both identifiers have a session and the last heartbeat found its session
C1_Witness ==
    /\ \A a \in AnonymousIds : ByAnonymousId(sessions, a) # {}
    /\ last.op = "trackSession"
    /\ \E r \in sessions : r._id = last.id /\ r.createdAt < r.lastActive

C3_CreatedAtImmutable ==
    [][\A id \in Ids(sessions) \cap Ids(sessions') :
          Row(sessions', id).createdAt = Row(sessions, id).createdAt]_vars

\* a session that took an action and then a later heartbeat
C3_Witness ==
    /\ last.op = "trackSession"
    /\ \E r \in sessions :
          /\ r._id = last.id
          /\ Len(r.actions) > 0
          /\ r.createdAt < r.actions[1].timestamp
          /\ r.actions[1].timestamp < r.lastActive

\* C4: lastActive of a session never decreases from one state to the next.
C4_LastActiveMonotone ==
    [][\A id \in Ids(sessions) \cap Ids(sessions') :
          Row(sessions', id).lastActive >= Row(sessions, id).lastActive]_vars

\* a session whose lastActive was raised by an action after a heartbeat
C4_Witness ==
    /\ last.op = "trackUserAction"
    /\ last.error = ""
    /\ \E r \in sessions :
          /\ r._id = last.id
          /\ r.lastActive = last.now
          /\ r.createdAt < r.lastActive

\* C5: every session has createdAt <= lastActive.
C5_CreatedBeforeActive ==
    \A r \in sessions : r.createdAt <= r.lastActive

\* a fresh session (createdAt = lastActive > 0) beside an older, refreshed one
C5_Witness ==
    \E r, q \in sessions :
        /\ r.createdAt = r.lastActive /\ r.createdAt > 0
        /\ q.createdAt < q.lastActive

\* C6: trackUserAction for an anonymousId without a session fails with
\* 'Session not found' and leaves the table as it was.
C6_NotFoundChangesNothing ==
    [][(/\ clock' = clock
        /\ last'.op = "trackUserAction"
        /\ ByAnonymousId(sessions, last'.anonymousId) = {})
       => (last'.error = "Session not found" /\ sessions' = sessions)]_vars

\* the call failed for one identifier while the other has a session
C6_Witness ==
    /\ last.op = "trackUserAction"
    /\ last.error = "Session not found"
    /\ ByAnonymousId(sessions, last.anonymousId) = {}
    /\ sessions # {}

\* C7: a trackUserAction on an existing session extends its actions by the
\* new entry at the end, every other step leaves actions as they are, and a
\* new session starts with no actions: after N calls actions holds the N
\* entries in call order.
C7_AppendOnly ==
    [][/\ \A id \in Ids(sessions) \cap Ids(sessions') :
             IF clock' = clock /\ last'.op = "trackUserAction" /\ last'.id = id
             THEN Row(sessions', id).actions =
                      Append(Row(sessions, id).actions,
                             Entry(last'.args, last'.now))
             ELSE Row(sessions', id).actions = Row(sessions, id).actions
       /\ \A id \in Ids(sessions') \ Ids(sessions) :
             Row(sessions', id).actions = << >>]_vars

\* two calls at different instants, recorded in call order
C7_Witness ==
    \E r \in sessions :
        /\ Len(r.actions) = 2
        /\ r.actions[1].action = "button_click"
        /\ r.actions[2].action = "form_submit"
        /\ r.actions[1].timestamp < r.actions[2].timestamp

\* C8: getActiveSessions returns exactly the sessions with
\* lastActive >= now - minutesActive * 60000, the boundary included.
C8_WindowInclusive ==
    last.op = "getActiveSessions" =>
        last.rows = {r \in sessions :
                        r.lastActive >= last.now - MinutesActive(last.args) * Minute}

\* C9: cleanupOldSessions deletes exactly the sessions with
\* lastActive < now - daysInactive * 86400000 and returns the number of
\* sessions it removed and that cutoff.
C9_CleanupExact ==
    [][(clock' = clock /\ last'.op = "cleanupOldSessions")
       => LET cutoff == clock - DaysInactive(last'.args) * Day
          IN  /\ sessions' = {r \in sessions : r.lastActive >= cutoff}
              /\ last'.deletedCount = Cardinality(sessions \ sessions')
              /\ last'.oldestDate = cutoff]_vars

\* one stale session deleted, one session exactly at the cutoff kept
C9_Witness ==
    /\ last.op = "cleanupOldSessions"
    /\ last.deletedCount = 1
    /\ nextId = 3
    /\ \E r \in sessions : r.lastActive = last.oldestDate

Scenario(S, T1) ==
    \E r \in S :
        /\ S = {r}
        /\ r.anonymousId = "abc"
        /\ r.createdAt <= T1
        /\ r.lastActive = T1
        /\ r.actions = <<Entry([action |-> "button_click"], T1)>>

\* C11 as stated: in the end-to-end scenario cleanupOldSessions with
\* daysInactive = 0 evaluated at T1 deletes the session and returns
\* deletedCount = 1.
C11_ScenarioDeletesAtT1 ==
    [][(/\ clock' = clock
        /\ last'.op = "cleanupOldSessions"
        /\ last'.args = [daysInactive |-> 0]
        /\ Scenario(sessions, clock))
       => (sessions' = {} /\ last'.deletedCount = 1)]_vars

\* C11 amended: evaluated at T1 the call keeps the session and returns
\* deletedCount = 0 (lastActive = T1 is not below the cutoff T1); evaluated
\* at a later instant it deletes the session and returns deletedCount = 1.
C11_ScenarioKeepsAtT1 ==
    [][\A T1 \in Times :
          (/\ clock' = clock
           /\ last'.op = "cleanupOldSessions"
           /\ last'.args = [daysInactive |-> 0]
           /\ Scenario(sessions, T1))
          => IF clock = T1
             THEN sessions' = sessions /\ last'.deletedCount = 0
             ELSE sessions' = {} /\ last'.deletedCount = 1]_vars

\* the scenario's session, still there after the cleanup at T1 returned 0
C11_Witness ==
    /\ last.op = "cleanupOldSessions"
    /\ last.args = [daysInactive |-> 0]
    /\ last.deletedCount = 0
    /\ last.now = clock
    /\ Scenario(sessions, clock)
    /\ \E r \in sessions : r.createdAt < r.lastActive

\* C13: a session leaves the table only in a step of cleanupOldSessions or
\* cleanupOldSessions_internal, and only when its lastActive is below the
\* cutoff of that step.
C13_OnlyCleanupRemoves ==
    [][\A r \in sessions :
          r._id \notin Ids(sessions')
          => /\ clock' = clock
             /\ last'.op \in {"cleanupOldSessions", "cleanupOldSessions_internal"}
             /\ last'.oldestDate = clock - DaysInactive(last'.args) * Day
             /\ r.lastActive < last'.oldestDate]_vars

\* a cleanup removed both sessions; one of them had taken an action
C13_Witness ==
    /\ last.op = "cleanupOldSessions"
    /\ last.deletedCount = 2
    /\ sessions = {}
    /\ nextId = 3

\* C19: after a successful trackUserAction at time now the last entry of
\* the session's actions is the new one, stamped now, and lastActive is now.
C19_LastActiveIsLastTimestamp ==
    (last.op = "trackUserAction" /\ last.error = "")
    => \E r \in sessions :
          /\ r._id = last.id
          /\ Len(r.actions) > 0
          /\ r.actions[Len(r.actions)].action = last.args.action
          /\ r.actions[Len(r.actions)].timestamp = last.now
          /\ r.lastActive = last.now
          /\ r.lastActive = r.actions[Len(r.actions)].timestamp

\* the second action of a session, tracked later than the first
C19_Witness ==
    /\ last.op = "trackUserAction"
    /\ last.error = ""
    /\ \E r \in sessions :
          /\ r._id = last.id
          /\ Len(r.actions) = 2
          /\ r.actions[1].timestamp < r.actions[2].timestamp
          /\ r.lastActive = r.actions[2].timestamp

\* C20: a trackSession call for an anonymousId that has a session returns
\* that session's _id and changes nothing but that session's lastActive.
C20_HeartbeatFrame ==
    [][(/\ clock' = clock
        /\ last'.op = "trackSession"
        /\ ByAnonymousId(sessions, last'.anonymousId) # {})
       => \E e \in ByAnonymousId(sessions, last'.anonymousId) :
             /\ last'.id = e._id
             /\ sessions' = (sessions \ {e}) \cup {[e EXCEPT !.lastActive = clock]}
             /\ nextId' = nextId]_vars

\* a heartbeat of a session that holds an action, beside an older session
\* of the other identifier
C20_Witness ==
    /\ last.op = "trackSession"
    /\ \E r, q \in sessions :
          /\ r._id = last.id
          /\ r.createdAt < r.lastActive
          /\ r.lastActive = last.now
          /\ Len(r.actions) > 0
          /\ q.anonymousId # r.anonymousId
          /\ q.lastActive < r.lastActive

----------------------------------------------------------------------------
(* Properties of SpecConc.                                                 *)

----------------------------------------------------------------------------
(* Properties of SpecClient.                                               *)

\* the calls issued by the effect run that made interval h, and by the
\* ticks of that interval
IssuedBy(reqs, h) == {i \in DOMAIN reqs : reqs[i].run = h}

\* C14: in a browser the effect issues one trackSession call for the
\* identifier at once and starts an interval of heartbeatInterval; every
\* tick of the interval issues one more call for the same identifier: while
\* the schedule is active the calls are one more than the ticks.
C14_HeartbeatPerTick ==
    \A t \in timers :
        /\ Cardinality(IssuedBy(requests, t.handle)) = 1 + t.fired
        /\ \A i \in IssuedBy(requests, t.handle) :
              requests[i].anonymousId = t.anonymousId
        /\ hook.anonymousId = {t.anonymousId}
        /\ \A props \in hook.props : t.delay = HeartbeatInterval(props)

\* the interval of a component rendered with heartbeatInterval 60000 has
\* ticked twice
C14_Witness ==
    \E t \in timers :
        /\ t.fired = 2
        /\ t.delay = 60000
        /\ Len(requests) = 3
        /\ event.type = "tick"

\* C15: once the cleanup of an effect has run, no call of its schedule is
\* issued any more.
C15_NoTickAfterStop ==
    [][\A h \in 1..(nextInterval - 1) :
          (\A e \in hook.effect : e.interval # h)
          => IssuedBy(requests', h) = IssuedBy(requests, h)]_vars

\* the component was unmounted after a tick of its interval, and a call
\* settled afterwards
C15_Witness ==
    /\ hook = Unmounted
    /\ timers = {}
    /\ event.type = "settle"
    /\ Cardinality(IssuedBy(requests, 1)) = 2
    /\ nextInterval = 2

\* C16: the hook has at most one active interval, the one of its current
\* effect.
C16_OneSchedule ==
    /\ Cardinality(timers) <= 1
    /\ {t.handle : t \in timers} = {e.interval : e \in hook.effect}

\* the dependencies changed: the first interval is gone and the second runs
C16_Witness ==
    /\ event = [type |-> "effect", run |-> 2]
    /\ \E t \in timers : t.handle = 2 /\ t.delay = 60000
    /\ Cardinality(IssuedBy(requests, 1)) = 2

\* C17: an identifier stored under a key stays there, and an effect run for
\* that key returns it.
C17_IdentityIdempotent ==
    [][\A k \in DOMAIN localStorage :
          localStorage[k] # ""
          => /\ k \in DOMAIN localStorage'
             /\ localStorage'[k] = localStorage[k]
             /\ (nextInterval' # nextInterval
                 /\ \E props \in hook'.props : StorageKey(props) = k)
                => hook'.anonymousId = {localStorage[k]}]_vars

\* the identifier generated by the first effect run, returned by the second
C17_Witness ==
    /\ nextUuid = 2
    /\ nextInterval = 3
    /\ localStorage = (DefaultStorageKey :> Uuids[1])
    /\ hook.anonymousId = {Uuids[1]}
    /\ \A i \in DOMAIN requests : requests[i].anonymousId = Uuids[1]

\* C18: outside a browser with an accessible localStorage the hook does not
\* fail, its identifier stays null, nothing is stored, no trackSession call
\* is issued and no interval is started.
C18_NoStorageNoFailure ==
    env # "browser"
    => /\ event.type # "error"
       /\ hook.anonymousId = {}
       /\ localStorage = << >>
       /\ requests = << >>
       /\ timers = {}

\* the calls of schedule h that have not settled
InFlight(reqs, h) == {i \in IssuedBy(reqs, h) : reqs[i].status = "pending"}

\* C21: a schedule never has two trackSession calls in flight.
C21_NoOverlappingCalls ==
    \A h \in 1..MaxIntervals : Cardinality(InFlight(requests, h)) <= 1

\* the calls of schedule h that failed
Failed(reqs, h) == {i \in IssuedBy(reqs, h) : reqs[i].status = "failed"}

\* C22: the step in which a trackSession call fails issues no call and
\* leaves the interval and the hook as they are; a tick of a schedule with
\* a failed call issues one call for the identifier of the failed call.
C22_FailureKeepsSchedule ==
    [][/\ (\E h \in 1..MaxIntervals : Failed(requests', h) # Failed(requests, h))
          => /\ Len(requests') = Len(requests)
             /\ timers' = timers
             /\ hook' = hook
       /\ \A h \in 1..MaxIntervals :
             (/\ Failed(requests, h) # {}
              /\ \E t \in timers : t.handle = h
              /\ \E t \in timers' : t.handle = h /\ t.fired # (CHOOSE u \in timers : u.handle = h).fired)
             => /\ Len(requests') = Len(requests) + 1
                /\ requests'[Len(requests')].run = h
                /\ requests'[Len(requests')].status = "pending"
                /\ \A i \in Failed(requests, h) :
                      requests'[Len(requests')].anonymousId = requests[i].anonymousId]_vars

\* the first call of the schedule failed and the tick after it issued the
\* next call for the same identifier
C22_Witness ==
    /\ Len(requests) = 2
    /\ requests[1].status = "failed"
    /\ requests[2].status = "pending"
    /\ requests[2].run = requests[1].run
    /\ requests[2].anonymousId = requests[1].anonymousId
    /\ event.type = "tick"
    /\ \E t \in timers : t.handle = requests[1].run /\ t.fired = 1

----------------------------------------------------------------------------
(* Properties of SpecCron.                                                 *)

\* session id is in the table with this lastActive
ActiveAt(id, t) == \E r \in sessions : r._id = id /\ r.lastActive = t

\* C25: with the cron firing every day and the clock advancing, a session
\* that gets no further call is deleted in the end, and the cron deletes no
\* session whose lastActive is within the last 14 days.  lastActive is the
\* instant of a call.
C25_CronDeletesStaleOnly ==
    /\ \A id \in 1..MaxRows : \A d \in 0..LastCallDay :
          ActiveAt(id, d * Day) ~> ~ActiveAt(id, d * Day)
    /\ [][\A id \in Ids(sessions) \ Ids(sessions') :
             Row(sessions, id).lastActive < clock - CronDaysInactive * Day]_vars

\* the cron has deleted the session that was last active 15 days ago and
\* kept the one that was last active 14 days ago
C25_Witness ==
    /\ last.op = "cleanupOldSessions_internal"
    /\ last.deletedCount = 1
    /\ \E r \in sessions : r.lastActive = clock - CronDaysInactive * Day

====
